---- MODULE Spec2Model ----
(***************************************************************************)
(* Model of the dotnet-core buildpack's project locator and start-command  *)
(* synthesizer (src/dotnetcore/project/project.go) and of its framework    *)
(* requirement detector and installer orchestrator                         *)
(* (src/dotnetcore/dotnetframework/dotnetframework.go).                    *)
(*                                                                         *)
(* Go strings are TLA+ strings; the string and path functions of the Go    *)
(* standard library the code calls are operators computed character by     *)
(* character.  The file system is a function from cleaned absolute paths   *)
(* to nodes; the ancestors of a node are directories.                      *)
(***************************************************************************)
EXTENDS Integers, Sequences, FiniteSets, TLC

VARIABLES fs, manifest, ret, calls, succ

vars == <<fs, manifest, ret, calls, succ>>

(***************************************************************************)
(* strings                                                                 *)
(***************************************************************************)

\* The characters the model's strings are made of, in byte order.
Bytes == "$-./0123456789ABCDEFGHIJKLMNOPQRSTUVWXYZ_abcdefghijklmnopqrstuvwxyz{}"

LowerAlpha == "abcdefghijklmnopqrstuvwxyz"

Digits == "0123456789"

Char(s, i) == SubSeq(s, i, i)

\* The position of the one-character string c in str, 0 when absent.
IndexIn(str, c) ==
    IF \E i \in 1..Len(str) : Char(str, i) = c
    THEN CHOOSE i \in 1..Len(str) : Char(str, i) = c
    ELSE 0

\* s < t in Go's string order (bytewise lexicographic).
RECURSIVE StrLess(_, _)
StrLess(s, t) ==
    IF Len(t) = 0 THEN FALSE
    ELSE IF Len(s) = 0 THEN TRUE
    ELSE IF Char(s, 1) = Char(t, 1)
         THEN StrLess(SubSeq(s, 2, Len(s)), SubSeq(t, 2, Len(t)))
         ELSE IndexIn(Bytes, Char(s, 1)) < IndexIn(Bytes, Char(t, 1))

HasPrefix(s, prefix) ==
    Len(s) >= Len(prefix) /\ SubSeq(s, 1, Len(prefix)) = prefix

HasSuffix(s, suffix) ==
    Len(s) >= Len(suffix) /\ SubSeq(s, Len(s) - Len(suffix) + 1, Len(s)) = suffix

Contains(s, substr) ==
    \E i \in 1..(Len(s) - Len(substr) + 1) :
        SubSeq(s, i, i + Len(substr) - 1) = substr

\* strings.Trim(s, cutset) for a one-character cutset: every leading and
\* every trailing occurrence of the character is removed.
RECURSIVE TrimLeft(_, _)
TrimLeft(s, c) ==
    IF Len(s) > 0 /\ Char(s, 1) = c THEN TrimLeft(SubSeq(s, 2, Len(s)), c) ELSE s

RECURSIVE TrimRight(_, _)
TrimRight(s, c) ==
    IF Len(s) > 0 /\ Char(s, Len(s)) = c
    THEN TrimRight(SubSeq(s, 1, Len(s) - 1), c)
    ELSE s

Trim(s, c) == TrimRight(TrimLeft(s, c), c)

\* strings.Split(s, sep) for a one-character separator.
RECURSIVE Split(_, _)
Split(s, sep) ==
    LET i == IndexIn(s, sep) IN
    IF i = 0 THEN <<s>>
    ELSE <<SubSeq(s, 1, i - 1)>> \o Split(SubSeq(s, i + 1, Len(s)), sep)

\* strings.Join(elems, sep)
RECURSIVE StringsJoin(_, _)
StringsJoin(elems, sep) ==
    IF Len(elems) = 0 THEN ""
    ELSE IF Len(elems) = 1 THEN elems[1]
    ELSE elems[1] \o sep \o StringsJoin(Tail(elems), sep)

\* The last position of the one-character string c in s, 0 when absent.
LastIndex(s, c) ==
    IF \E i \in 1..Len(s) : Char(s, i) = c
    THEN CHOOSE i \in 1..Len(s) :
            Char(s, i) = c /\ \A j \in (i + 1)..Len(s) : Char(s, j) # c
    ELSE 0

(***************************************************************************)
(* path/filepath                                                           *)
(***************************************************************************)

\* The element stack filepath.Clean builds: "." and empty elements dropped,
\* ".." removing the element before it (kept in a relative path that has
\* nothing left to remove, dropped at the root).
RECURSIVE CleanElems(_, _, _)
CleanElems(elems, out, rooted) ==
    IF Len(elems) = 0 THEN out
    ELSE LET e == Head(elems) IN
         IF e = "" \/ e = "." THEN CleanElems(Tail(elems), out, rooted)
         ELSE IF e = ".."
              THEN IF Len(out) > 0 /\ out[Len(out)] # ".."
                   THEN CleanElems(Tail(elems), SubSeq(out, 1, Len(out) - 1), rooted)
                   ELSE IF rooted
                        THEN CleanElems(Tail(elems), out, rooted)
                        ELSE CleanElems(Tail(elems), Append(out, e), rooted)
              ELSE CleanElems(Tail(elems), Append(out, e), rooted)

\* The cleaned path of the element stack out.
CleanJoin(rooted, out) ==
    IF rooted THEN "/" \o StringsJoin(out, "/")
    ELSE IF Len(out) = 0 THEN "." ELSE StringsJoin(out, "/")

\* filepath.Clean
Clean(path) ==
    IF path = "" THEN "."
    ELSE CleanJoin(Char(path, 1) = "/",
                   CleanElems(Split(path, "/"), <<>>, Char(path, 1) = "/"))

\* filepath.Join: the non-empty elements joined by "/" and cleaned; "" when
\* every element is empty.
Join(elems) ==
    LET kept == SelectSeq(elems, LAMBDA e : e # "") IN
    IF Len(kept) = 0 THEN "" ELSE Clean(StringsJoin(kept, "/"))

\* filepath.Base
Base(path) ==
    IF path = "" THEN "."
    ELSE LET p == TrimRight(path, "/") IN
         IF p = "" THEN "/"
         ELSE SubSeq(p, LastIndex(p, "/") + 1, Len(p))

\* filepath.Dir of a cleaned absolute path
Dir(path) ==
    LET i == LastIndex(path, "/") IN
    IF i <= 1 THEN "/" ELSE SubSeq(path, 1, i - 1)

(***************************************************************************)
(* the file system                                                         *)
(***************************************************************************)

buildDir == "/tmp/app"

depDir == "/tmp/deps/9"

depsIdx == "9"

Mode0644 == 420

Mode0755 == 493

\* A parsed document: ok is whether the file's text parses in its format, kv
\* the values the code reads from it by key.
NoKV == [k \in {} |-> ""]

Doc(ok, kv) == [ok |-> ok, kv |-> kv]

FileNode(mode, doc) == [kind |-> "file", mode |-> mode, doc |-> doc]

DirNode == [kind |-> "dir", mode |-> Mode0755, doc |-> Doc(FALSE, NoKV)]

Plain == FileNode(Mode0644, Doc(FALSE, NoKV))

\* d is a proper ancestor directory of path p.
IsAncestor(d, p) == IF d = "/" THEN p # "/" ELSE HasPrefix(p, d \o "/")

\* os.Stat succeeds: the path is a node or an ancestor of one.
Exists(f, path) ==
    path \in DOMAIN f \/ \E p \in DOMAIN f : IsAncestor(path, p)

IsDir(f, path) ==
    \/ path \in DOMAIN f /\ f[path].kind = "dir"
    \/ \E p \in DOMAIN f : IsAncestor(path, p)

\* os.Stat fails with ENOTDIR: an element of the path is a regular file.
NotDir(f, path) ==
    \E p \in DOMAIN f : f[p].kind = "file" /\ IsAncestor(p, path)

\* libbuildpack.FileExists: (exists, err)
FileExists(f, path) ==
    IF NotDir(f, path) THEN [exists |-> FALSE, err |-> "stat " \o path \o ": not a directory"]
    ELSE [exists |-> Exists(f, path), err |-> ""]

\* os.Chmod
Chmod(f, path, mode) ==
    IF path \in DOMAIN f THEN [f EXCEPT ![path].mode = mode]
    ELSE (path :> [DirNode EXCEPT !.mode = mode]) @@ f

\* The execute bit is set for owner, group and other.
ExecutableByAll(mode) ==
    /\ (mode \div 64) % 2 = 1
    /\ (mode \div 8) % 2 = 1
    /\ mode % 2 = 1

\* The names of a directory's entries.
DirNames(f, dir) ==
    { Split(SubSeq(p, Len(dir) + 2, Len(p)), "/")[1] :
        p \in { q \in DOMAIN f : IsAncestor(dir, q) } }

\* sort.Strings
RECURSIVE SortStrings(_)
SortStrings(S) ==
    IF S = {} THEN <<>>
    ELSE LET m == CHOOSE x \in S : \A y \in S \ {x} : StrLess(x, y)
         IN  <<m>> \o SortStrings(S \ {m})

\* readDirNames of path/filepath: the entries' names, sorted.
ReadDirNames(f, dir) == SortStrings(DirNames(f, dir))

\* filepath.Match for the patterns the code uses: a leading "*" matches any
\* sequence of characters of a name, the rest of the pattern is literal.
Match(pattern, name) ==
    IF HasPrefix(pattern, "*")
    THEN HasSuffix(name, SubSeq(pattern, 2, Len(pattern)))
    ELSE name = pattern

\* The matches of Glob: each matching name joined to the directory.
GlobJoin(dir, names) == [i \in 1..Len(names) |-> Join(<<dir, names[i]>>)]

\* filepath.Glob(filepath.Join(dir, pattern)): the entries of dir whose name
\* matches, in sorted order; nothing when dir is no directory.
Glob(f, dir, pattern) ==
    IF ~IsDir(f, dir) THEN <<>>
    ELSE GlobJoin(dir, SelectSeq(ReadDirNames(f, dir), LAMBDA n : Match(pattern, n)))

(***************************************************************************)
(* filepath.Walk with the walk function of ProjFilePaths                   *)
(***************************************************************************)

\* A variant of WalkFn: the walk function does not exclude .cloudfoundry.
WalkFn_NoExclusion(path, paths) ==
    IF HasSuffix(path, ".csproj") \/ HasSuffix(path, ".vbproj")
       \/ HasSuffix(path, ".fsproj")
    THEN [paths |-> Append(paths, path), err |-> ""]
    ELSE [paths |-> paths, err |-> ""]

\* The walk function of ProjFilePaths (project.go lines 36-44) on one path:
\* the paths collected so far and the error it returns.
WalkFn(path, paths) ==
    IF Contains(path, "/.cloudfoundry/")
    THEN [paths |-> paths, err |-> "SkipDir"]
    ELSE IF HasSuffix(path, ".csproj") \/ HasSuffix(path, ".vbproj")
            \/ HasSuffix(path, ".fsproj")
         THEN [paths |-> Append(paths, path), err |-> ""]
         ELSE [paths |-> paths, err |-> ""]

\* walk of path/filepath: a file is handed to the walk function; a directory
\* is handed to it and then its entries are walked in sorted order.  SkipDir
\* returned for a directory skips that directory; returned for a file it
\* ends the walk of the directory that holds the file.
RECURSIVE walk(_, _, _)
RECURSIVE walkDir(_, _, _)
RECURSIVE walkNames(_, _, _, _)
RECURSIVE walkEntry(_, _, _, _, _)
walk(f, path, paths) ==
    IF ~IsDir(f, path) THEN WalkFn(path, paths)
    ELSE walkDir(f, path, WalkFn(path, paths))

\* r is what the walk function returned for the directory itself.
walkDir(f, path, r) ==
    IF r.err # "" THEN r
    ELSE walkNames(f, path, ReadDirNames(f, path), r.paths)

walkNames(f, dir, names, paths) ==
    IF Len(names) = 0 THEN [paths |-> paths, err |-> ""]
    ELSE walkEntry(f, dir, names, Join(<<dir, Head(names)>>),
                   walk(f, Join(<<dir, Head(names)>>), paths))

\* r is what walk returned for the entry filename, the first of names.
walkEntry(f, dir, names, filename, r) ==
    IF r.err # "" /\ (~IsDir(f, filename) \/ r.err # "SkipDir")
    THEN r
    ELSE walkNames(f, dir, Tail(names), r.paths)

WalkResult(r) ==
    IF r.err = "SkipDir" THEN [paths |-> r.paths, err |-> ""] ELSE r

\* filepath.Walk: SkipDir from the root ends the walk without an error.
Walk(f, root) ==
    WalkResult(IF Exists(f, root) THEN walk(f, root, <<>>) ELSE WalkFn(root, <<>>))

(***************************************************************************)
(* project.go                                                              *)
(***************************************************************************)

\* A Go (string, error) result; err "" is nil.
StrResult(str, err) == [str |-> str, err |-> err]

BoolResult(bool, err) == [bool |-> bool, err |-> err]

\* A variant of OneConfigFile: of several runtime-config files the first is returned.
OneConfigFile_First(configFiles) ==
    IF Len(configFiles) >= 1 THEN StrResult(configFiles[1], "")
    ELSE StrResult("", "")

\* Lines 66-71 of RuntimeConfigFile, on what filepath.Glob returned.
OneConfigFile(configFiles) ==
    IF Len(configFiles) = 1 THEN StrResult(configFiles[1], "")
    ELSE IF Len(configFiles) > 1
         THEN StrResult("", "Multiple .runtimeconfig.json files present")
         ELSE StrResult("", "")

\* Project.RuntimeConfigFile
RuntimeConfigFile(f) == OneConfigFile(Glob(f, buildDir, "*.runtimeconfig.json"))

\* Lines 27-31 of IsPublished, on what RuntimeConfigFile returned.
IsPublishedFor(r) ==
    IF r.err # "" THEN BoolResult(FALSE, r.err) ELSE BoolResult(r.str # "", "")

\* Project.IsPublished
IsPublished(f) == IsPublishedFor(RuntimeConfigFile(f))

\* Lines 44-47 of ProjFilePaths, on what filepath.Walk returned.
ProjFilePathsFor(r) ==
    IF r.err # "" THEN [list |-> <<>>, err |-> r.err]
    ELSE [list |-> r.paths, err |-> ""]

\* Project.ProjFilePaths
ProjFilePaths(f) == ProjFilePathsFor(Walk(f, buildDir))

\* Lines 51-60 of IsFsharp, on what ProjFilePaths returned.
IsFsharpFor(r) ==
    IF r.err # "" THEN BoolResult(FALSE, r.err)
    ELSE BoolResult(\E i \in 1..Len(r.list) : HasSuffix(r.list[i], ".fsproj"), "")

\* Project.IsFsharp
IsFsharp(f) == IsFsharpFor(ProjFilePaths(f))

\* fmt.Sprintf("%v", paths) for a []string
FormatSlice(paths) == "[" \o StringsJoin(paths, " ") \o "]"

\* ini.Load of the .deployment file, then GetSection("config") and
\* GetKey("project") (lines 91-102): the key's value, or the first error.
DeploymentProject(f, path) ==
    IF path \notin DOMAIN f \/ f[path].kind # "file" \/ ~f[path].doc.ok
    THEN StrResult("", "ini: unable to load " \o path)
    ELSE IF "[config]" \notin DOMAIN f[path].doc.kv
    THEN StrResult("", "section 'config' does not exist")
    ELSE IF "config.project" \notin DOMAIN f[path].doc.kv
    THEN StrResult("", "error when getting key of section 'config': key 'project' not exists")
    ELSE StrResult(f[path].doc.kv["config.project"], "")

\* Line 103 of MainPath, on the project key read from the .deployment file.
HintedPath(project) ==
    IF project.err # "" THEN StrResult("", project.err)
    ELSE StrResult(Join(<<buildDir, Trim(project.str, ".")>>), "")

\* A variant of MainPathByHint: with several descriptors and no .deployment file, the first
\* one is returned.
MainPathByHint_First(f, paths, ex) ==
    IF ex.err # "" THEN StrResult("", ex.err)
    ELSE IF ex.exists
    THEN HintedPath(DeploymentProject(f, Join(<<buildDir, ".deployment">>)))
    ELSE StrResult(paths[1], "")

\* Lines 88-105 of MainPath: more than one descriptor was found; ex is what
\* FileExists returned for the .deployment file.
MainPathByHint(f, paths, ex) ==
    IF ex.err # "" THEN StrResult("", ex.err)
    ELSE IF ex.exists
    THEN HintedPath(DeploymentProject(f, Join(<<buildDir, ".deployment">>)))
    ELSE StrResult("", "Multiple paths: " \o FormatSlice(paths)
             \o " contain a project file, but no .deployment file was used")

\* Lines 80-107 of MainPath, on what ProjFilePaths returned.
MainPathAmong(f, pf) ==
    IF pf.err # "" THEN StrResult("", pf.err)
    ELSE IF Len(pf.list) = 1 THEN StrResult(pf.list[1], "")
    ELSE IF Len(pf.list) > 1
    THEN MainPathByHint(f, pf.list, FileExists(f, Join(<<buildDir, ".deployment">>)))
    ELSE StrResult("", "")

\* A variant of MainPathAfterConfig: the descriptors are consulted before the runtime-config file.
MainPathAfterConfig_DescriptorsFirst(f, rc) ==
    IF rc.err # "" THEN StrResult("", rc.err)
    ELSE IF rc.str # "" /\ Len(ProjFilePaths(f).list) = 0 THEN StrResult(rc.str, "")
    ELSE MainPathAmong(f, ProjFilePaths(f))

\* Lines 75-79 of MainPath, on what RuntimeConfigFile returned.
MainPathAfterConfig(f, rc) ==
    IF rc.err # "" THEN StrResult("", rc.err)
    ELSE IF rc.str # "" THEN StrResult(rc.str, "")
    ELSE MainPathAmong(f, ProjFilePaths(f))

\* Project.MainPath
MainPath(f) == MainPathAfterConfig(f, RuntimeConfigFile(f))

\* A result of StartCommand: the command, the error, and the file system
\* after the call.
CmdResult(str, err, f) == [str |-> str, err |-> err, fs |-> f]

\* Lines 133-138 of publishedStartCommand; dll is what FileExists returned
\* for the .dll.
FoundDll(f, projectPath, runtimePath, dll) ==
    IF dll.err # ""
    THEN CmdResult("", "checking if a " \o projectPath \o ".dll file exists: " \o dll.err, f)
    ELSE IF dll.exists
    THEN CmdResult(Join(<<runtimePath, projectPath>>) \o ".dll", "", f)
    ELSE CmdResult("", "", f)

\* A variant of FoundExe: the executable is returned without its mode being changed.
FoundExe_NoChmod(f, projectPath, publishedPath, runtimePath, exe) ==
    IF exe.err # "" THEN CmdResult("", exe.err, f)
    ELSE IF exe.exists
    THEN CmdResult(Join(<<runtimePath, projectPath>>), "", f)
    ELSE FoundDll(f, projectPath, runtimePath,
                  FileExists(f, Join(<<publishedPath, projectPath \o ".dll">>)))

\* Lines 124-131 of publishedStartCommand; exe is what FileExists returned
\* for the executable.  os.Chmod sets the mode of the file that was found.
FoundExe(f, projectPath, publishedPath, runtimePath, exe) ==
    IF exe.err # "" THEN CmdResult("", exe.err, f)
    ELSE IF exe.exists
    THEN CmdResult(Join(<<runtimePath, projectPath>>), "",
                   Chmod(f, Join(<<Join(<<publishedPath, projectPath>>)>>), Mode0755))
    ELSE FoundDll(f, projectPath, runtimePath,
                  FileExists(f, Join(<<publishedPath, projectPath \o ".dll">>)))

\* publishedPath and runtimePath of publishedStartCommand (lines 116-122).
PublishedPath(published) ==
    IF published THEN buildDir ELSE Join(<<depDir, "dotnet_publish">>)

RuntimePath(published) ==
    IF published THEN "${HOME}" ELSE Join(<<"${DEPS_DIR}", depsIdx, "dotnet_publish">>)

\* Lines 114-139 of publishedStartCommand, on what IsPublished returned.
PublishedCommand(f, projectPath, published) ==
    IF published.err # "" THEN CmdResult("", published.err, f)
    ELSE FoundExe(f, projectPath, PublishedPath(published.bool),
                  RuntimePath(published.bool),
                  FileExists(f, Join(<<PublishedPath(published.bool), projectPath>>)))

\* Project.publishedStartCommand
publishedStartCommand(f, projectPath) ==
    PublishedCommand(f, projectPath, IsPublished(f))

\* A variant of getAssemblyName: a descriptor that does not parse declares no AssemblyName.
getAssemblyName_Lenient(f, projectPath) ==
    IF NotDir(f, projectPath)
    THEN StrResult("", "open " \o projectPath \o ": not a directory")
    ELSE IF ~Exists(f, projectPath)
    THEN StrResult("", "open " \o projectPath \o ": no such file or directory")
    ELSE IF IsDir(f, projectPath)
    THEN StrResult("", "read " \o projectPath \o ": is a directory")
    ELSE IF f[projectPath].doc.ok
            /\ "PropertyGroup.AssemblyName" \in DOMAIN f[projectPath].doc.kv
    THEN StrResult(f[projectPath].doc.kv["PropertyGroup.AssemblyName"], "")
    ELSE StrResult("", "")

\* Project.getAssemblyName: os.Open and ioutil.ReadAll of the descriptor,
\* xml.Unmarshal into {PropertyGroup {AssemblyName}}.
getAssemblyName(f, projectPath) ==
    IF NotDir(f, projectPath)
    THEN StrResult("", "open " \o projectPath \o ": not a directory")
    ELSE IF ~Exists(f, projectPath)
    THEN StrResult("", "open " \o projectPath \o ": no such file or directory")
    ELSE IF IsDir(f, projectPath)
    THEN StrResult("", "read " \o projectPath \o ": is a directory")
    ELSE IF ~f[projectPath].doc.ok
    THEN StrResult("", "XML syntax error")
    ELSE IF "PropertyGroup.AssemblyName" \in DOMAIN f[projectPath].doc.kv
    THEN StrResult(f[projectPath].doc.kv["PropertyGroup.AssemblyName"], "")
    ELSE StrResult("", "")

\* runtimeConfigRe of StartCommand: \.(runtimeconfig\.json)$
RuntimeConfigReMatch(s) == HasSuffix(s, ".runtimeconfig.json")

RuntimeConfigReStrip(s) ==
    IF RuntimeConfigReMatch(s)
    THEN SubSeq(s, 1, Len(s) - Len(".runtimeconfig.json"))
    ELSE s

\* The text after position i of s is lower-case letters ending in "proj",
\* at least one letter before it.
ProjReTail(tail) ==
    /\ Len(tail) >= Len("proj") + 1
    /\ HasSuffix(tail, "proj")
    /\ \A j \in 1..Len(tail) : IndexIn(LowerAlpha, Char(tail, j)) > 0

\* projRe of StartCommand: \.([a-z]+proj)$ .  The text after the dot holds
\* lower-case letters only, so a match starts at the last dot of s; the value
\* is that dot's position, 0 when there is no match.
ProjReIndex(s) ==
    IF LastIndex(s, ".") > 0 /\ ProjReTail(SubSeq(s, LastIndex(s, ".") + 1, Len(s)))
    THEN LastIndex(s, ".")
    ELSE 0

ProjReMatch(s) == ProjReIndex(s) > 0

ProjReStrip(s) == IF ProjReMatch(s) THEN SubSeq(s, 1, ProjReIndex(s) - 1) ELSE s

\* A variant of DescriptorBaseName: the base name is always the descriptor's file name.
DescriptorBaseName_FileName(mainPath, assemblyName) ==
    IF assemblyName.err # "" THEN StrResult("", assemblyName.err)
    ELSE StrResult(Base(ProjReStrip(mainPath)), "")

\* Lines 179-187 of StartCommand, on what getAssemblyName returned.
DescriptorBaseName(mainPath, assemblyName) ==
    IF assemblyName.err # "" THEN StrResult("", assemblyName.err)
    ELSE IF assemblyName.str # ""
    THEN StrResult(ProjReStrip(assemblyName.str), "")
    ELSE StrResult(Base(ProjReStrip(mainPath)), "")

\* The base name StartCommand hands to publishedStartCommand for a main path
\* (lines 174-188), or the error of getAssemblyName.
StartBaseName(f, mainPath) ==
    IF RuntimeConfigReMatch(mainPath)
    THEN StrResult(Base(RuntimeConfigReStrip(mainPath)), "")
    ELSE IF ProjReMatch(mainPath)
    THEN DescriptorBaseName(mainPath, getAssemblyName(f, mainPath))
    ELSE StrResult(mainPath, "")

\* Line 190 of StartCommand, on the base name.
StartCommandFor(f, baseName) ==
    IF baseName.err # "" THEN CmdResult("", baseName.err, f)
    ELSE publishedStartCommand(f, baseName.str)

\* Lines 165-190 of StartCommand, on what MainPath returned.
StartCommandAt(f, mp) ==
    IF mp.err # "" THEN CmdResult("", mp.err, f)
    ELSE IF mp.str = "" THEN CmdResult("", "", f)
    ELSE StartCommandFor(f, StartBaseName(f, mp.str))

\* Project.StartCommand
StartCommand(f) == StartCommandAt(f, MainPath(f))

(***************************************************************************)
(* dotnetframework.go                                                      *)
(***************************************************************************)

\* The value of a string of decimal digits, -1 for any other string.
RECURSIVE ParseNum(_, _)
ParseNum(s, acc) ==
    IF Len(s) = 0 THEN acc
    ELSE IF IndexIn(Digits, Char(s, 1)) = 0 THEN -1
    ELSE ParseNum(SubSeq(s, 2, Len(s)), acc * 10 + (IndexIn(Digits, Char(s, 1)) - 1))

SegNum(s) == IF s = "" THEN -1 ELSE ParseNum(s, 0)

AllNumeric(segs) == \A i \in 1..Len(segs) : SegNum(segs[i]) >= 0

\* A catalog entry parses as a version: dot-separated numeric segments.
IsVersion(v) == AllNumeric(Split(v, "."))

\* Version a precedes version b: segment by segment, numerically.
RECURSIVE SegsLess(_, _)
SegsLess(a, b) ==
    IF Len(b) = 0 THEN FALSE
    ELSE IF Len(a) = 0 THEN TRUE
    ELSE IF SegNum(Head(a)) = SegNum(Head(b)) THEN SegsLess(Tail(a), Tail(b))
    ELSE SegNum(Head(a)) < SegNum(Head(b))

VersionLess(a, b) == SegsLess(Split(a, "."), Split(b, "."))

\* The segments c of a candidate satisfy the segments k of a constraint: as
\* many segments, and every segment of the constraint that is not the
\* wildcard "x" equals the candidate's.
SegsSatisfy(c, k) ==
    /\ AllNumeric(c)
    /\ Len(c) = Len(k)
    /\ \A i \in 1..Len(k) : k[i] = "x" \/ SegNum(k[i]) = SegNum(c[i])

Satisfies(candidate, constraint) ==
    SegsSatisfy(Split(candidate, "."), Split(constraint, "."))

\* The members of a catalog satisfying a constraint.
Matching(constraint, versions) ==
    { versions[i] : i \in { j \in 1..Len(versions) : Satisfies(versions[j], constraint) } }

\* The highest of a non-empty set of versions.
Highest(m) == CHOOSE v \in m : \A w \in m : ~VersionLess(v, w)

NoMatch(constraint, versions) ==
    "no match found for " \o constraint \o " in " \o FormatSlice(versions)

BestOf(constraint, versions, m) ==
    IF m = {} THEN StrResult("", NoMatch(constraint, versions))
    ELSE StrResult(Highest(m), "")

\* libbuildpack.FindMatchingVersion: the highest member of the catalog that
\* satisfies the constraint, or an error when none does.
FindMatchingVersion(constraint, versions) ==
    BestOf(constraint, versions, Matching(constraint, versions))

\* Lines 132-137 of runtimeConfigFile, on what filepath.Glob returned.
OneRuntimeConfig(configFiles) ==
    IF Len(configFiles) = 1 THEN StrResult(configFiles[1], "")
    ELSE IF Len(configFiles) > 1
         THEN StrResult("", "Multiple .runtimeconfig.json files present")
         ELSE StrResult("", "")

\* DotnetFramework.runtimeConfigFile
runtimeConfigFile(f) == OneRuntimeConfig(Glob(f, buildDir, "*.runtimeconfig.json"))

\* The struct of requiredVersions as json.Unmarshal fills it from the keys of
\* the document: the framework version and the applyPatches pointer ("nil"
\* when the key is absent).
RuntimeOptions(kv) ==
    [version |-> IF "runtimeOptions.framework.version" \in DOMAIN kv
                 THEN kv["runtimeOptions.framework.version"] ELSE "",
     applyPatches |-> IF "runtimeOptions.applyPatches" \in DOMAIN kv
                      THEN kv["runtimeOptions.applyPatches"] ELSE "nil",
     err |-> ""]

\* libbuildpack.NewJSON().Load of the runtime-config file (line 72).
LoadRuntimeConfig(f, path) ==
    IF path \notin DOMAIN f \/ f[path].kind # "file"
    THEN [version |-> "", applyPatches |-> "nil", err |-> "read " \o path \o ": is a directory"]
    ELSE IF ~f[path].doc.ok
    THEN [version |-> "", applyPatches |-> "nil", err |-> "invalid character in JSON"]
    ELSE RuntimeOptions(f[path].doc.kv)

\* A Go ([]string, error) result, or a run-time panic.
ListResult(list, err) == [list |-> list, err |-> err, panic |-> FALSE]

Panic == [list |-> <<>>, err |-> "", panic |-> TRUE]

\* Lines 81-86 of requiredVersions, on what FindMatchingVersion returned.
Resolved(r) ==
    IF r.err # "" THEN ListResult(<<>>, r.err) ELSE ListResult(<<r.str>>, "")

\* Lines 78-81 of requiredVersions: v is strings.Split(version, ".");
\* v[2] = "x" indexes it without a length check, then the constraint is
\* resolved against the catalog.
Patched(v, versions) ==
    IF Len(v) < 3 THEN Panic
    ELSE Resolved(FindMatchingVersion(StringsJoin([v EXCEPT ![3] = "x"], "."), versions))

PatchedVersion(version, versions) == Patched(Split(version, "."), versions)

\* Lines 75-88 of requiredVersions, on the loaded runtime-config file.
VersionsOfConfig(obj, versions) ==
    IF obj.err # "" THEN ListResult(<<>>, obj.err)
    ELSE IF obj.version # ""
    THEN IF obj.applyPatches = "nil" \/ obj.applyPatches = "true"
         THEN PatchedVersion(obj.version, versions)
         ELSE ListResult(<<obj.version>>, "")
    ELSE ListResult(<<>>, "")

restoredVersionsDir == Join(<<depDir, ".nuget", "packages", "microsoft.netcore.app">>)

\* Lines 91-104 of requiredVersions; ex is what FileExists returned for the
\* restored-packages directory.
RestoredVersions(f, ex) ==
    IF ex.err # "" THEN ListResult(<<>>, ex.err)
    ELSE IF ~ex.exists THEN ListResult(<<>>, "")
    ELSE IF ~IsDir(f, restoredVersionsDir)
    THEN ListResult(<<>>, "readdirent " \o restoredVersionsDir \o ": not a directory")
    ELSE ListResult(ReadDirNames(f, restoredVersionsDir), "")

\* Lines 57-105 of requiredVersions, on what runtimeConfigFile returned.
RequiredFor(f, versions, runtimeFile) ==
    IF runtimeFile.err # "" THEN ListResult(<<>>, runtimeFile.err)
    ELSE IF runtimeFile.str # ""
    THEN VersionsOfConfig(LoadRuntimeConfig(f, runtimeFile.str), versions)
    ELSE RestoredVersions(f, FileExists(f, restoredVersionsDir))

\* DotnetFramework.requiredVersions; versions is
\* manifest.AllDependencyVersions("dotnet-framework").
requiredVersions(f, versions) == RequiredFor(f, versions, runtimeConfigFile(f))

\* DotnetFramework.getFrameworkDir
getFrameworkDir == Join(<<depDir, "dotnet", "shared", "Microsoft.NETCore.App">>)

\* A variant of isInstalled: no version is ever found installed.
isInstalled_Never(f, version) == [exists |-> FALSE, err |-> ""]

\* DotnetFramework.isInstalled
isInstalled(f, version) == FileExists(f, Join(<<getFrameworkDir, version>>))

\* Installer.InstallDependency for dotnet-framework into depDir/dotnet: on
\* success the unpacked archive holds the version's shared-runtime directory.
InstallDependency(f, version, succeeds) ==
    IF succeeds
    THEN [fs |-> (Join(<<depDir, "dotnet", "shared", "Microsoft.NETCore.App", version>>)
                    :> DirNode) @@ f,
          err |-> ""]
    ELSE [fs |-> f, err |-> "install of dotnet-framework " \o version \o " failed"]

\* DotnetFramework.installFramework
installFramework(f, version, succeeds) == InstallDependency(f, version, succeeds)

\* calls counts the installer's invocations per version, succ those that
\* succeeded.
Count(c, v) == IF v \in DOMAIN c THEN c[v] ELSE 0

Inc(c, v) == (v :> Count(c, v) + 1) @@ c

\* The state of an Install call after isInstalled was asked about v (line 45).
Checked(st, v) == [st EXCEPT !.checked = Append(st.checked, v)]

\* A variant of Invoked: the installer's error is dropped.
Invoked_IgnoreError(st, v, r) ==
    [st EXCEPT !.fs = r.fs,
               !.invoked = Append(st.invoked, v),
               !.calls = Inc(st.calls, v),
               !.succ = IF r.err = "" THEN Inc(st.succ, v) ELSE st.succ]

\* The state of an Install call after the installer was invoked for v and
\* returned r.
Invoked(st, v, r) ==
    [st EXCEPT !.fs = r.fs,
               !.invoked = Append(st.invoked, v),
               !.calls = Inc(st.calls, v),
               !.succ = IF r.err = "" THEN Inc(st.succ, v) ELSE st.succ,
               !.err = r.err]

\* The loop of Install (lines 44-52) over the versions left to do; failing is
\* the set of versions the external installer fails for during this call.
RECURSIVE InstallLoop(_, _, _)
RECURSIVE InstallNext(_, _, _, _)
RECURSIVE InstallRest(_, _, _)
InstallLoop(st, todo, failing) ==
    IF Len(todo) = 0 THEN st
    ELSE InstallNext(Checked(st, Head(todo)), todo, failing,
                     isInstalled(st.fs, Head(todo)))

\* Lines 45-51, on what isInstalled returned for the first version to do.
InstallNext(st, todo, failing, found) ==
    IF found.err # "" THEN [st EXCEPT !.err = found.err]
    ELSE IF found.exists THEN InstallLoop(st, Tail(todo), failing)
    ELSE InstallRest(Invoked(st, Head(todo),
                             installFramework(st.fs, Head(todo), Head(todo) \notin failing)),
                     todo, failing)

\* Lines 48-50: an error of installFramework ends the call.
InstallRest(st, todo, failing) ==
    IF st.err # "" THEN st ELSE InstallLoop(st, Tail(todo), failing)

\* Lines 35-53 of Install, on what requiredVersions returned.
InstallRequired(st, required, failing) ==
    IF required.panic THEN [st EXCEPT !.panic = TRUE]
    ELSE IF required.err # "" THEN [st EXCEPT !.err = required.err]
    ELSE IF Len(required.list) = 0 THEN st
    ELSE InstallLoop(st, required.list, failing)

\* DotnetFramework.Install
Install(f, versions, c, s, failing) ==
    InstallRequired([fs |-> f, err |-> "", panic |-> FALSE, invoked |-> <<>>,
                     checked |-> <<>>, calls |-> c, succ |-> s],
                    requiredVersions(f, versions), failing)

(***************************************************************************)
(* the state machine                                                       *)
(***************************************************************************)

\* The most files a source tree of the project specification holds besides
\* the build and dependency directories, and the most nodes a tree of the
\* framework specification holds.
MaxFiles == 3

MaxNodes == 3

\* The most invocations of the external installer per version.
MaxInvocations == 2

B(name) == buildDir \o "/" \o name

D(name) == depDir \o "/" \o name

Xml(ok, kv) == FileNode(Mode0644, Doc(ok, kv))

Ini(ok, kv) == FileNode(Mode0644, Doc(ok, kv))

Json(ok, kv) == FileNode(Mode0644, Doc(ok, kv))

\* After construction the build directory and the dependency directory exist.
EmptyTree == (buildDir :> DirNode) @@ (depDir :> DirNode)

\* The files a source tree of the project specification is drawn from.
ProjectFiles ==
    { <<B("first.csproj"), Xml(TRUE, NoKV)>>,
      <<B("first.csproj"), Xml(FALSE, NoKV)>>,
      <<B("dir/second.csproj"), Xml(TRUE, "PropertyGroup.AssemblyName" :> "f.red.csproj")>>,
      <<B("a/b/first.vbproj"), Xml(TRUE, "PropertyGroup.AssemblyName" :> "")>>,
      <<B(".hidden/app.fsproj"), Xml(TRUE, NoKV)>>,
      <<B(".cloudfoundry/other.csproj"), Xml(TRUE, NoKV)>>,
      <<B(".cloudfoundry/0/a/something.fsproj"), Xml(TRUE, NoKV)>>,
      <<B("x/.cloudfoundry/n.vbproj"), Xml(TRUE, NoKV)>>,
      <<B("fred.runtimeconfig.json"), Json(TRUE, NoKV)>>,
      <<B(".runtimeconfig.json"), Json(TRUE, NoKV)>>,
      <<B("fred"), Plain>>,
      <<B("fred.dll"), Plain>>,
      <<B(".deployment"),
        Ini(TRUE, ("[config]" :> "") @@ ("config.project" :> "./a/b/first.vbproj"))>>,
      <<B(".deployment"),
        Ini(TRUE, ("[config]" :> "") @@ ("config.project" :> ".hidden/app.fsproj"))>>,
      <<B(".deployment"),
        Ini(TRUE, ("[config]" :> "") @@ ("config.project" :> "./first.csproj/x.csproj"))>>,
      <<B(".deployment"), Ini(TRUE, "[config]" :> "")>>,
      <<D("dotnet_publish/first"), Plain>>,
      <<D("dotnet_publish/first.dll"), Plain>>,
      <<D("dotnet_publish/f.red"), Plain>>,
      <<D("dotnet_publish/second"), Plain>> }

\* The nodes a tree of the framework specification is drawn from.
FrameworkNodes ==
    { <<B("fred.runtimeconfig.json"),
        Json(TRUE, "runtimeOptions.framework.version" :> "2.1.3")>>,
      <<B("fred.runtimeconfig.json"),
        Json(TRUE, ("runtimeOptions.framework.version" :> "2.1.3")
                   @@ ("runtimeOptions.applyPatches" :> "true"))>>,
      <<B("fred.runtimeconfig.json"),
        Json(TRUE, ("runtimeOptions.framework.version" :> "2.0.0")
                   @@ ("runtimeOptions.applyPatches" :> "false"))>>,
      <<B("fred.runtimeconfig.json"),
        Json(TRUE, "runtimeOptions.framework.version" :> "2.1")>>,
      <<B("fred.runtimeconfig.json"), Json(TRUE, NoKV)>>,
      <<B("fred.runtimeconfig.json"), Json(FALSE, NoKV)>>,
      <<B("bob.runtimeconfig.json"), Json(TRUE, NoKV)>>,
      <<D(".nuget/packages/microsoft.netcore.app/2.1.1"), DirNode>>,
      <<D(".nuget/packages/microsoft.netcore.app/2.0.0"), DirNode>>,
      <<D(".nuget/packages/microsoft.netcore.app"), DirNode>>,
      <<D(".nuget/packages/microsoft.netcore.app/readme.txt"), Plain>>,
      <<D("dotnet/shared/Microsoft.NETCore.App/2.1.10"), DirNode>>,
      <<D("dotnet/shared/Microsoft.NETCore.App/2.0.0"), DirNode>> }

\* The catalogs of dotnet-framework versions of the manifest.
Catalogs ==
    { <<"2.1.1", "2.1.10", "2.1.9", "2.0.0">>,
      <<"2.0.0", "1.1.2">>,
      <<>> }

\* The trees of at most k nodes drawn from U: no path is drawn twice.
RECURSIVE Trees(_, _)
Trees(U, k) ==
    IF k = 0 THEN {EmptyTree}
    ELSE LET prev == Trees(U, k - 1) IN
         prev \cup UNION { { (c[1] :> c[2]) @@ t :
                               c \in { u \in U : u[1] \notin DOMAIN t } } :
                           t \in prev }

NoCall == [op |-> "", str |-> "", list |-> <<>>, bool |-> FALSE, err |-> "",
           panic |-> FALSE, invoked |-> <<>>, checked |-> <<>>]

NoCalls == [v \in {} |-> 0]

Init ==
    /\ fs \in Trees(ProjectFiles, MaxFiles)
    /\ manifest = <<>>
    /\ ret = NoCall
    /\ calls = NoCalls
    /\ succ = NoCalls

InitFramework ==
    /\ fs \in Trees(FrameworkNodes, MaxNodes)
    /\ manifest \in Catalogs
    /\ ret = NoCall
    /\ calls = NoCalls
    /\ succ = NoCalls

CallIsPublished ==
    /\ \E r \in {IsPublished(fs)} :
         ret' = [NoCall EXCEPT !.op = "IsPublished", !.bool = r.bool, !.err = r.err]
    /\ UNCHANGED <<fs, manifest, calls, succ>>

CallProjFilePaths ==
    /\ \E r \in {ProjFilePaths(fs)} :
         ret' = [NoCall EXCEPT !.op = "ProjFilePaths", !.list = r.list, !.err = r.err]
    /\ UNCHANGED <<fs, manifest, calls, succ>>

CallIsFsharp ==
    /\ \E r \in {IsFsharp(fs)} :
         ret' = [NoCall EXCEPT !.op = "IsFsharp", !.bool = r.bool, !.err = r.err]
    /\ UNCHANGED <<fs, manifest, calls, succ>>

CallRuntimeConfigFile ==
    /\ \E r \in {RuntimeConfigFile(fs)} :
         ret' = [NoCall EXCEPT !.op = "RuntimeConfigFile", !.str = r.str, !.err = r.err]
    /\ UNCHANGED <<fs, manifest, calls, succ>>

CallDetectorRuntimeConfigFile ==
    /\ \E r \in {runtimeConfigFile(fs)} :
         ret' = [NoCall EXCEPT !.op = "runtimeConfigFile", !.str = r.str, !.err = r.err]
    /\ UNCHANGED <<fs, manifest, calls, succ>>

CallMainPath ==
    /\ \E r \in {MainPath(fs)} :
         ret' = [NoCall EXCEPT !.op = "MainPath", !.str = r.str, !.err = r.err]
    /\ UNCHANGED <<fs, manifest, calls, succ>>

CallStartCommand ==
    \E r \in {StartCommand(fs)} :
    /\ ret' = [NoCall EXCEPT !.op = "StartCommand", !.str = r.str, !.err = r.err]
    /\ fs' = r.fs
    /\ UNCHANGED <<manifest, calls, succ>>

CallRequiredVersions ==
    \E r \in {requiredVersions(fs, manifest)} :
    /\ ret' = [NoCall EXCEPT !.op = "requiredVersions", !.list = r.list,
                             !.err = r.err, !.panic = r.panic]
    /\ UNCHANGED <<fs, manifest, calls, succ>>

\* The versions a list holds.
Members(list) == { list[i] : i \in 1..Len(list) }

\* The versions the installer may be asked for in this state.
Askable == Members(requiredVersions(fs, manifest).list)

CallInstall ==
    /\ \A v \in DOMAIN calls : calls[v] < MaxInvocations
    /\ \E failing \in SUBSET Askable :
         \E r \in {Install(fs, manifest, calls, succ, failing)} :
         /\ ret' = [NoCall EXCEPT !.op = "Install", !.err = r.err,
                                  !.panic = r.panic, !.invoked = r.invoked,
                                  !.checked = r.checked]
         /\ fs' = r.fs
         /\ calls' = r.calls
         /\ succ' = r.succ
    /\ UNCHANGED manifest

Next ==
    \/ CallIsPublished
    \/ CallProjFilePaths
    \/ CallIsFsharp
    \/ CallRuntimeConfigFile
    \/ CallDetectorRuntimeConfigFile
    \/ CallMainPath
    \/ CallStartCommand

NextFramework ==
    \/ CallDetectorRuntimeConfigFile
    \/ CallRequiredVersions
    \/ CallInstall

Spec == Init /\ [][Next]_vars

SpecFramework == InitFramework /\ [][NextFramework]_vars

(***************************************************************************)
(* what the properties speak about                                         *)
(***************************************************************************)

\* The files directly in the build root named <base>.runtimeconfig.json.
RootConfigs ==
    { p \in DOMAIN fs : Dir(p) = buildDir /\ HasSuffix(Base(p), ".runtimeconfig.json") }

\* The elements of a path below the build root.
Elements(p) == Split(SubSeq(p, Len(buildDir) + 2, Len(p)), "/")

\* p lies inside a directory named exactly ".cloudfoundry".
InCloudfoundry(p) ==
    \E i \in 1..(Len(Elements(p)) - 1) : Elements(p)[i] = ".cloudfoundry"

HasDescriptorExt(p) ==
    HasSuffix(p, ".csproj") \/ HasSuffix(p, ".vbproj") \/ HasSuffix(p, ".fsproj")

\* The build descriptors of the source tree, wherever they lie.
AllDescriptors ==
    { p \in DOMAIN fs : IsAncestor(buildDir, p) /\ fs[p].kind = "file" /\ HasDescriptorExt(p) }

\* The build descriptors outside .cloudfoundry: the candidates.
Candidates == { p \in AllDescriptors : ~InCloudfoundry(p) }

HintFile == buildDir \o "/.deployment"

HasHint == HintFile \in DOMAIN fs

\* The .deployment file parses and its [config] section has a project key.
HintNamesProject ==
    /\ HasHint
    /\ fs[HintFile].doc.ok
    /\ "config.project" \in DOMAIN fs[HintFile].doc.kv

HintProject == fs[HintFile].doc.kv["config.project"]

\* P with its leading "." elements removed, the rest unchanged.
RECURSIVE DropDotElements(_)
DropDotElements(elems) ==
    IF Len(elems) > 1 /\ Head(elems) = "." THEN DropDotElements(Tail(elems)) ELSE elems

StripLeadingDotSegments(P) == StringsJoin(DropDotElements(Split(P, "/")), "/")

(***************************************************************************)
(* C1                                                                      *)
(***************************************************************************)

\* C1: with no runtime-config file at the build root, more than one build
\* descriptor outside .cloudfoundry and no .deployment file, MainPath returns
\* no path and an error that names every candidate descriptor.
C1_AmbiguousProjectFails ==
    (/\ ret.op = "MainPath"
     /\ RootConfigs = {}
     /\ Cardinality(Candidates) > 1
     /\ ~HasHint)
    => /\ ret.str = ""
       /\ ret.err # ""
       /\ \A p \in Candidates : Contains(ret.err, p)

C1_Witness ==
    /\ ret.op = "MainPath"
    /\ RootConfigs = {}
    /\ Cardinality(Candidates) = 3
    /\ ~HasHint
    /\ ret.err # ""

(***************************************************************************)
(* C2                                                                      *)
(***************************************************************************)

\* C2: RuntimeConfigFile of the project, and runtimeConfigFile of the
\* detector, return "" and no error when no file of the build root matches
\* *.runtimeconfig.json, the file's path when exactly one does, and an error
\* and no path when more than one does.
C2_RuntimeConfigFile ==
    ret.op \in {"RuntimeConfigFile", "runtimeConfigFile"}
    => /\ Cardinality(RootConfigs) = 0 => ret.str = "" /\ ret.err = ""
       /\ Cardinality(RootConfigs) = 1 => ret.str \in RootConfigs /\ ret.err = ""
       /\ Cardinality(RootConfigs) > 1 => ret.str = "" /\ ret.err # ""

C2_Witness ==
    /\ ret.op = "RuntimeConfigFile"
    /\ Cardinality(RootConfigs) = 2
    /\ ret.str = ""
    /\ ret.err = "Multiple .runtimeconfig.json files present"

(***************************************************************************)
(* C3                                                                      *)
(***************************************************************************)

\* C3: when exactly one runtime-config file exists at the build root,
\* MainPath returns its path and no error, whatever descriptors and
\* .deployment file the tree holds.
C3_RuntimeConfigWins ==
    (ret.op = "MainPath" /\ Cardinality(RootConfigs) = 1)
    => ret.str \in RootConfigs /\ ret.err = ""

C3_Witness ==
    /\ ret.op = "MainPath"
    /\ Cardinality(RootConfigs) = 1
    /\ Cardinality(Candidates) > 1
    /\ ret.str \in RootConfigs

(***************************************************************************)
(* C4                                                                      *)
(***************************************************************************)

\* C4: with no runtime-config file, more than one build descriptor and a
\* .deployment file whose [config] section has the project key P, MainPath
\* returns with no error the build root joined with P stripped of its
\* leading "." segments only.
C4_HintedPath ==
    (/\ ret.op = "MainPath"
     /\ RootConfigs = {}
     /\ Cardinality(Candidates) > 1
     /\ HintNamesProject)
    => /\ ret.err = ""
       /\ ret.str = Join(<<buildDir, StripLeadingDotSegments(HintProject)>>)

(***************************************************************************)
(* C5                                                                      *)
(***************************************************************************)

\* C5: no path ProjFilePaths returns lies inside a directory named
\* .cloudfoundry, at any depth; IsFsharp answers true only for an .fsproj
\* outside such a directory, and MainPath neither returns nor names in its
\* error a descriptor inside one.
C5_CloudfoundryExcluded ==
    /\ ret.op = "ProjFilePaths"
       => \A i \in 1..Len(ret.list) : ~InCloudfoundry(ret.list[i])
    /\ (ret.op = "IsFsharp" /\ ret.bool)
       => \E p \in Candidates : HasSuffix(p, ".fsproj")
    /\ (ret.op = "MainPath" /\ RootConfigs = {} /\ ~HasHint)
       => /\ ret.str \notin { p \in AllDescriptors : InCloudfoundry(p) }
          /\ \A p \in AllDescriptors : InCloudfoundry(p) => ~Contains(ret.err, p)

C5_Witness ==
    /\ ret.op = "ProjFilePaths"
    /\ Cardinality({ p \in AllDescriptors : InCloudfoundry(p) }) = 2
    /\ Len(ret.list) = 1

(***************************************************************************)
(* C6                                                                      *)
(***************************************************************************)

\* <base> of a runtime-config file <base>.runtimeconfig.json.
ConfigBase(p) == SubSeq(Base(p), 1, Len(Base(p)) - Len(".runtimeconfig.json"))

InBuildRoot(name) == buildDir \o "/" \o name

\* C6: in a published tree with the one runtime-config file
\* <base>.runtimeconfig.json, StartCommand returns ${HOME}/<base> when a file
\* <base> is in the build root, whether or not <base>.dll is too, and that
\* file is then executable by owner, group and other; else ${HOME}/<base>.dll
\* when <base>.dll is there; else the empty string and no error.
C6_PublishedStartCommand ==
    (ret.op = "StartCommand" /\ Cardinality(RootConfigs) = 1)
    => \A p \in RootConfigs :
         ConfigBase(p) # ""
         => /\ ret.err = ""
            /\ InBuildRoot(ConfigBase(p)) \in DOMAIN fs
               => /\ ret.str = "${HOME}/" \o ConfigBase(p)
                  /\ ExecutableByAll(fs[InBuildRoot(ConfigBase(p))].mode)
            /\ (/\ InBuildRoot(ConfigBase(p)) \notin DOMAIN fs
                /\ InBuildRoot(ConfigBase(p) \o ".dll") \in DOMAIN fs)
               => ret.str = "${HOME}/" \o ConfigBase(p) \o ".dll"
            /\ (/\ InBuildRoot(ConfigBase(p)) \notin DOMAIN fs
                /\ InBuildRoot(ConfigBase(p) \o ".dll") \notin DOMAIN fs)
               => ret.str = ""

C6_Witness ==
    /\ ret.op = "StartCommand"
    /\ RootConfigs = {InBuildRoot("fred.runtimeconfig.json")}
    /\ InBuildRoot("fred") \in DOMAIN fs
    /\ InBuildRoot("fred.dll") \in DOMAIN fs
    /\ ret.str = "${HOME}/fred"
    /\ fs[InBuildRoot("fred")].mode = Mode0755

(***************************************************************************)
(* C7                                                                      *)
(***************************************************************************)

\* A name without its trailing .csproj, .vbproj or .fsproj.
StripDescriptorExt(name) ==
    IF HasDescriptorExt(name) THEN SubSeq(name, 1, Len(name) - Len(".csproj")) ELSE name

\* The AssemblyName a descriptor declares, "" when it declares none.
Override(p) ==
    IF "PropertyGroup.AssemblyName" \in DOMAIN fs[p].doc.kv
    THEN fs[p].doc.kv["PropertyGroup.AssemblyName"]
    ELSE ""

ExpectedBase(p) ==
    IF Override(p) # "" THEN StripDescriptorExt(Override(p))
    ELSE StripDescriptorExt(Base(p))

Staged(name) == depDir \o "/dotnet_publish/" \o name

\* The main path is a build descriptor of the tree.
MainIsDescriptor ==
    /\ RootConfigs = {}
    /\ MainPath(fs).err = ""
    /\ MainPath(fs).str \in AllDescriptors

\* C7: in an unpublished tree whose main path is a build descriptor that
\* parses, StartCommand looks under <depDir>/dotnet_publish for the
\* descriptor's AssemblyName without a trailing descriptor extension when it
\* declares one, and for the descriptor's file name without its extension
\* only when it declares none, and returns what it finds rooted at
\* ${DEPS_DIR}/<depsIdx>/dotnet_publish.
C7_UnpublishedStartCommand ==
    (/\ ret.op = "StartCommand"
     /\ MainIsDescriptor
     /\ fs[MainPath(fs).str].doc.ok)
    => /\ ret.err = ""
       /\ Staged(ExpectedBase(MainPath(fs).str)) \in DOMAIN fs
          => ret.str = "${DEPS_DIR}/" \o depsIdx \o "/dotnet_publish/"
                          \o ExpectedBase(MainPath(fs).str)
       /\ (/\ Staged(ExpectedBase(MainPath(fs).str)) \notin DOMAIN fs
           /\ Staged(ExpectedBase(MainPath(fs).str) \o ".dll") \in DOMAIN fs)
          => ret.str = "${DEPS_DIR}/" \o depsIdx \o "/dotnet_publish/"
                          \o ExpectedBase(MainPath(fs).str) \o ".dll"
       /\ (/\ Staged(ExpectedBase(MainPath(fs).str)) \notin DOMAIN fs
           /\ Staged(ExpectedBase(MainPath(fs).str) \o ".dll") \notin DOMAIN fs)
          => ret.str = ""

C7_Witness ==
    /\ ret.op = "StartCommand"
    /\ MainIsDescriptor
    /\ MainPath(fs).str = InBuildRoot("dir/second.csproj")
    /\ Override(MainPath(fs).str) = "f.red.csproj"
    /\ Staged("f.red") \in DOMAIN fs
    /\ Staged("second") \in DOMAIN fs
    /\ ret.str = "${DEPS_DIR}/9/dotnet_publish/f.red"

(***************************************************************************)
(* C8                                                                      *)
(***************************************************************************)

\* The runtime-config file declares a framework version and its applyPatches
\* flag is true or absent.
DeclaresPatchableVersion(p) ==
    /\ fs[p].doc.ok
    /\ "runtimeOptions.framework.version" \in DOMAIN fs[p].doc.kv
    /\ fs[p].doc.kv["runtimeOptions.framework.version"] # ""
    /\ "runtimeOptions.applyPatches" \in DOMAIN fs[p].doc.kv
       => fs[p].doc.kv["runtimeOptions.applyPatches"] = "true"

DeclaredVersion(p) == fs[p].doc.kv["runtimeOptions.framework.version"]

\* The members of the catalog whose major and minor segments equal V's.
SameMajorMinor(V) ==
    { c \in { manifest[i] : i \in 1..Len(manifest) } :
        /\ Len(Split(c, ".")) >= 2
        /\ Len(Split(V, ".")) >= 2
        /\ Split(c, ".")[1] = Split(V, ".")[1]
        /\ Split(c, ".")[2] = Split(V, ".")[2] }

\* C8: for a runtime-config file with a non-empty framework version V and
\* applyPatches true or absent, requiredVersions returns either the
\* one-element list of the highest catalog member with V's major and minor
\* segments, or an error when the catalog has no such member, and nothing
\* else.
C8_PatchResolved ==
    (ret.op = "requiredVersions" /\ Cardinality(RootConfigs) = 1)
    => \A p \in RootConfigs :
         DeclaresPatchableVersion(p)
         => /\ ~ret.panic
            /\ IF SameMajorMinor(DeclaredVersion(p)) = {}
               THEN ret.list = <<>> /\ ret.err # ""
               ELSE /\ ret.err = ""
                    /\ ret.list = <<Highest(SameMajorMinor(DeclaredVersion(p)))>>

(***************************************************************************)
(* C9                                                                      *)
(***************************************************************************)

FrameworkDirOf(v) == depDir \o "/dotnet/shared/Microsoft.NETCore.App/" \o v

\* C9 as stated: over any sequence of Install calls the external installer
\* is invoked at most once per required version.
C9_InvokedAtMostOnce == \A v \in DOMAIN calls : calls[v] <= 1

\* An Install call invokes the installer only for versions whose directory
\* does not exist when the call begins.
C9_NeverForInstalled ==
    (ret'.op = "Install" /\ calls' # calls)
    => \A v \in DOMAIN calls' :
         calls'[v] > Count(calls, v) => FrameworkDirOf(v) \notin DOMAIN fs

\* An Install call that follows a successful one invokes nothing and returns
\* no error.
C9_SecondIsNoOp ==
    (/\ ret.op = "Install" /\ ret.err = "" /\ ~ret.panic
     /\ ret'.op = "Install")
    => calls' = calls /\ ret'.err = "" /\ ~ret'.panic /\ fs' = fs

\* C9: over any sequence of Install calls on an unchanged source tree the
\* external installer succeeds at most once per required version and is
\* never invoked for a version whose directory
\* <depDir>/dotnet/shared/Microsoft.NETCore.App/<version> already exists; an
\* Install after a successful one makes no installer call and returns no
\* error.  An invocation that failed may be followed by another for the same
\* version in a later Install call.
C9_Idempotent ==
    /\ [](\A v \in DOMAIN succ : succ[v] <= 1)
    /\ [][C9_NeverForInstalled]_vars
    /\ [][C9_SecondIsNoOp]_vars

C9_Witness ==
    /\ ret.op = "Install"
    /\ ret.invoked = <<>>
    /\ ret.err = ""
    /\ \E v \in DOMAIN succ : succ[v] = 1 /\ calls[v] = 1 /\ FrameworkDirOf(v) \in DOMAIN fs

(***************************************************************************)
(* C10                                                                     *)
(***************************************************************************)

\* C10: when the main path is a build descriptor that cannot be parsed,
\* StartCommand returns an error and no command, also when an executable or a
\* .dll named after the descriptor's file is staged under the publish
\* directory.
C10_MalformedDescriptorFails ==
    (/\ ret.op = "StartCommand"
     /\ MainIsDescriptor
     /\ ~fs[MainPath(fs).str].doc.ok)
    => ret.err # "" /\ ret.str = ""

C10_Witness ==
    /\ ret.op = "StartCommand"
    /\ MainIsDescriptor
    /\ ~fs[MainPath(fs).str].doc.ok
    /\ Staged(StripDescriptorExt(Base(MainPath(fs).str))) \in DOMAIN fs
    /\ Staged(StripDescriptorExt(Base(MainPath(fs).str)) \o ".dll") \in DOMAIN fs
    /\ ret.err # ""
    /\ ret.str = ""

(***************************************************************************)
(* C11                                                                     *)
(***************************************************************************)

\* The paths below the restored-package location.
RestoredEntries == { p \in DOMAIN fs : IsAncestor(restoredVersionsDir, p) }

\* The elements of such a path below the location.
RestoredElements(p) ==
    Split(SubSeq(p, Len(restoredVersionsDir) + 2, Len(p)), "/")

\* The names of the location's subdirectories: the children that are
\* directories or hold something.
RestoredSubdirs ==
    { RestoredElements(p)[1] :
        p \in { q \in RestoredEntries :
                  fs[q].kind = "dir" \/ Len(RestoredElements(q)) > 1 } }

RestoredLocationExists ==
    restoredVersionsDir \in DOMAIN fs \/ RestoredEntries # {}

\* The tree without the restored-package location and what is below it.
WithoutRestored ==
    [ p \in { q \in DOMAIN fs : q # restoredVersionsDir /\ q \notin RestoredEntries }
        |-> fs[p] ]

\* The runtime-config file parses and declares no framework version.
DeclaresNoVersion(p) ==
    /\ fs[p].doc.ok
    /\ "runtimeOptions.framework.version" \in DOMAIN fs[p].doc.kv
       => fs[p].doc.kv["runtimeOptions.framework.version"] = ""

\* With a runtime-config file, requiredVersions returns what it returns on
\* the tree without the restored-package location, and the empty list when
\* the file declares no version.
C11_FromRuntimeConfig ==
    (ret.op = "requiredVersions" /\ Cardinality(RootConfigs) = 1)
    => /\ \E r \in {requiredVersions(WithoutRestored, manifest)} :
            ret.list = r.list /\ ret.err = r.err /\ ret.panic = r.panic
       /\ \A p \in RootConfigs :
            DeclaresNoVersion(p) => ret.list = <<>> /\ ret.err = "" /\ ~ret.panic

\* Without a runtime-config file, requiredVersions returns the names of the
\* subdirectories of the restored-package location and nothing else, the
\* empty list when the location does not exist, and no error.
C11_FromRestoredPackages ==
    (ret.op = "requiredVersions" /\ RootConfigs = {})
    => /\ ret.err = ""
       /\ ~ret.panic
       /\ { ret.list[i] : i \in 1..Len(ret.list) } = RestoredSubdirs
       /\ Len(ret.list) = Cardinality(RestoredSubdirs)
       /\ ~RestoredLocationExists => ret.list = <<>>

\* C11: the source of the required versions is chosen by the presence of a
\* runtime-config file alone: with one, the result depends on that file and
\* the catalog only, not on <depDir>/.nuget/packages/microsoft.netcore.app,
\* and is the empty list when the file declares no version; with none, the
\* result is exactly the names of the subdirectories of that location, or
\* the empty list with no error when the location does not exist.
C11_SourceOfVersions == C11_FromRuntimeConfig /\ C11_FromRestoredPackages

(***************************************************************************)
(* C12                                                                     *)
(***************************************************************************)

\* The list Install works through when it begins in the current state.
Required == requiredVersions(fs, manifest).list

\* This step is an Install call that got a list of required versions.
InstallStep ==
    /\ ret'.op = "Install"
    /\ ~requiredVersions(fs, manifest).panic
    /\ requiredVersions(fs, manifest).err = ""

\* The external installer was invoked for v in this step and failed.
FailedFor(v) ==
    /\ Count(calls', v) > Count(calls, v)
    /\ Count(succ', v) = Count(succ, v)

\* The error the external installer returns for v.
InstallerError(v) == "install of dotnet-framework " \o v \o " failed"

\* Install asks isInstalled about the versions in list order, each once, and
\* invokes the installer, in that order, for those whose directory is absent
\* when the call begins.
C12_InListOrder ==
    InstallStep
    => /\ \E k \in 0..Len(Required) : ret'.checked = SubSeq(Required, 1, k)
       /\ ret'.invoked
            = SelectSeq(ret'.checked, LAMBDA v : FrameworkDirOf(v) \notin DOMAIN fs)

\* When the installer fails for the i-th version, Install returns its error,
\* has invoked it once for that version, has neither checked nor installed a
\* later version, and the versions before it are installed.
C12_StopsAtFailure ==
    InstallStep
    => \A i \in 1..Len(Required) :
         FailedFor(Required[i])
         => /\ ret'.err = InstallerError(Required[i])
            /\ Count(calls', Required[i]) = Count(calls, Required[i]) + 1
            /\ ret'.checked = SubSeq(Required, 1, i)
            /\ \A j \in (i + 1)..Len(Required) :
                 /\ Count(calls', Required[j]) = Count(calls, Required[j])
                 /\ FrameworkDirOf(Required[j]) \in DOMAIN fs'
                    <=> FrameworkDirOf(Required[j]) \in DOMAIN fs
            /\ \A j \in 1..(i - 1) : FrameworkDirOf(Required[j]) \in DOMAIN fs'
            /\ \A q \in DOMAIN fs : q \in DOMAIN fs' /\ fs'[q] = fs[q]

\* C12: Install processes the required versions in list order; when the
\* external installer fails for a version, Install returns that error
\* unchanged, does not invoke the installer again for that version, and
\* neither checks nor installs any later version of the list; the versions
\* installed before the failure stay installed.
C12_FailureEndsInstall ==
    /\ [][C12_InListOrder]_vars
    /\ [][C12_StopsAtFailure]_vars

C12_Witness ==
    /\ ret.op = "Install"
    /\ ret.checked = <<"2.0.0", "2.1.1">>
    /\ ret.invoked = <<"2.0.0", "2.1.1">>
    /\ ret.err = InstallerError("2.1.1")
    /\ FrameworkDirOf("2.0.0") \in DOMAIN fs
    /\ FrameworkDirOf("2.1.1") \notin DOMAIN fs
    /\ Required = <<"2.0.0", "2.1.1", "readme.txt">>
    /\ FrameworkDirOf("readme.txt") \notin DOMAIN fs
    /\ Count(calls, "readme.txt") = 0

====
